------------------------------ MODULE Spec2Model ------------------------------
(***************************************************************************)
(* UEFI Stub Loader (Stubloader.c, efi_main): a state machine of one       *)
(* invocation of the loader.  CHAR16 strings are sequences of 16-bit code  *)
(* units; the configuration buffer is a sequence of bytes, read as units   *)
(* in little-endian order (the x86-64 / AArch64 UEFI targets).  C arrays   *)
(* are 0-based, TLA+ sequences 1-based: C index k is sequence index k + 1. *)
(***************************************************************************)
EXTENDS Integers, Sequences, FiniteSets, TLC

\* ------------------------------------------------------------------ bounds
MaxBody == 5        \* code units after the byte-order mark in a marked file
MaxBootLen == 3     \* code units of BootFilePath before its terminator

\* ------------------------------------------------------- program constants
UTF16_BOM_LE == 65279   \* 0xFEFF
UTF16_BOM_BE == 65534   \* 0xFFFE
NUL == 0                \* L'\0'
LF == 10                \* L'\n'
CR == 13                \* L'\r'
SPACE == 32             \* L' '
BACKSLASH == 92         \* L'\\'
BOMCompareLength == 2   \* compare(KernelcmdArray, &BOM_check, 2)
CHAR16Size == 2         \* sizeof(CHAR16)

\* Letters used in the inputs below ('A', 'B').
Letters == <<65, 66>>
LetterA == Letters[1]
LetterB == Letters[2]

\* CONST CHAR16 TxtFileName[14] = L"Kernelcmd.txt" (13 units and the terminator)
TxtFileName == <<75, 101, 114, 110, 101, 108, 99, 109, 100, 46, 116, 120, 116, 0>>

\* sizeof(TxtFileName), in bytes
SizeofTxtFileName == Len(TxtFileName) * CHAR16Size

\* EFI_STATUS values; EFI_ERROR(Status) is "the high bit is set".
ErrorStatuses == {"EFI_LOAD_ERROR", "EFI_INVALID_PARAMETER", "EFI_UNSUPPORTED",
                  "EFI_DEVICE_ERROR", "EFI_OUT_OF_RESOURCES", "EFI_NOT_FOUND",
                  "EFI_ABORTED"}
EFI_ERROR(S) == S \in ErrorStatuses

\* The buffers of one invocation.
Buffers == {"TxtFilePath", "FileInfo", "KernelcmdArray", "KernelPath", "Cmdline",
            "FullDevicePath"}

\* ----------------------------------------------------------------- helpers
RECURSIVE SeqsUpTo(_, _)
SeqsUpTo(S, n) ==
  IF n = 0 THEN {<<>>}
  ELSE LET shorter == SeqsUpTo(S, n - 1)
       IN  shorter \cup {Append(s, x) : s \in {t \in shorter : Len(t) = n - 1}, x \in S}

\* The bytes of a sequence of 16-bit units, low byte first.
RECURSIVE BytesOf(_)
BytesOf(units) ==
  IF units = <<>> THEN <<>>
  ELSE <<Head(units) % 256, Head(units) \div 256>> \o BytesOf(Tail(units))

\* Values an uninitialized pool cell, or a byte outside the buffer, may hold.
GarbageUnits == {0, 44975}      \* 0x0000, 0xAFAF
GarbageBytes == {0, 254, 255}

\* ------------------------------------------------------------------ inputs
BootUnits == {BACKSLASH, LetterA, LetterB}
\* BootFilePath with its terminator.
BootPaths == {Append(p, NUL) : p \in SeqsUpTo(BootUnits, MaxBootLen)}
\* The invocation paths of the full pipeline: one with a directory, one bare.
MainBootPaths == {<<BACKSLASH, LetterB, NUL>>, <<LetterB, NUL>>}

BodyUnits == {LF, CR, SPACE, LetterA}
MarkedUnitFiles == {<<UTF16_BOM_LE>> \o b : b \in SeqsUpTo(BodyUnits, MaxBody)}
\* Files that do not start with the native marker: the opposite-order marker,
\* a first byte that matches and a second that does not, and plain text.
UnmarkedUnitFiles == {<<u>> \o b : u \in {UTF16_BOM_BE, 255, LetterA},
                                   b \in {<<>>, <<LetterA, LF>>}}
\* An odd-length file ends with one byte that is half a unit.
Files == {BytesOf(u) \o t : u \in MarkedUnitFiles \cup UnmarkedUnitFiles \cup {<<>>},
                            t \in {<<>>, <<255>>}}
MaxFileBytes == CHAR16Size * (1 + MaxBody) + 1

VARIABLES
  pc,                       \* position in efi_main
  Status,                   \* EFI_STATUS Status
  retLine,                  \* source line of the return statement taken, 0 while running
  BootFilePath,             \* LoadedImage->FilePath PathName, terminator included
  TxtFilePathPrefixLength,
  TxtFilePath,              \* contents of the TxtFilePath allocation (units)
  txtWritten,               \* unit indices of TxtFilePath written so far
  pool,                     \* buffer -> "none" | "allocated" | "freed"
  poolType,                 \* buffer -> memory type it was allocated from
  FileSize,                 \* FileInfo->FileSize
  KernelcmdArray,           \* bytes of the configuration buffer (FileSize of them valid)
  arrayAlloc,               \* byte size of the KernelcmdArray allocation
  bufReads,                 \* byte offsets of KernelcmdArray the loader has read
  FirstLineLength,
  KernelPathLen,
  CmdlineLen,
  CmdlineSize,
  KernelPath,               \* contents of the KernelPath allocation (units)
  kpWrites,                 \* unit indices written through KernelPath[...]
  Cmdline,                  \* contents of the Cmdline allocation (units)
  clWrites,                 \* unit indices written through Cmdline[...]
  FullDevicePath,           \* file path held by the descriptor, <<>> if none
  LoadOptions,              \* LoadedKernelImage->LoadOptions: "NULL" or a buffer name
  LoadOptionsSize,          \* LoadedKernelImage->LoadOptionsSize
  LoadedKernelImageHandle,  \* "unset", or the image LoadImage produced
  events                    \* firmware calls made so far, in order

vars == <<pc, Status, retLine, BootFilePath, TxtFilePathPrefixLength, TxtFilePath,
          txtWritten, pool, poolType, FileSize, KernelcmdArray, arrayAlloc, bufReads,
          FirstLineLength, KernelPathLen, CmdlineLen, CmdlineSize, KernelPath,
          kpWrites, Cmdline, clWrites, FullDevicePath, LoadOptions, LoadOptionsSize,
          LoadedKernelImageHandle, events>>

locVars == <<TxtFilePathPrefixLength, TxtFilePath, txtWritten>>
fileVars == <<FileSize, KernelcmdArray, arrayAlloc, bufReads>>
parseVars == <<FirstLineLength, KernelPathLen, CmdlineLen, CmdlineSize>>
stringVars == <<KernelPath, kpWrites, Cmdline, clWrites>>
imageVars == <<FullDevicePath, LoadOptions, LoadOptionsSize, LoadedKernelImageHandle>>
poolVars == <<pool, poolType>>


\* ----------------------------------------------------- pure code fragments

\* while(BootFilePath[BootFilePathLength] != L'\0') { if(... == L'\\')
\*   TxtFilePathPrefixLength = BootFilePathLength; BootFilePathLength++; }
RECURSIVE BootPathScan(_, _, _)
BootPathScan(path, BootFilePathLength, prefix) ==
  IF path[BootFilePathLength + 1] = NUL
  THEN [BootFilePathLength |-> BootFilePathLength, TxtFilePathPrefixLength |-> prefix]
  ELSE BootPathScan(path, BootFilePathLength + 1,
                    IF path[BootFilePathLength + 1] = BACKSLASH
                    THEN BootFilePathLength ELSE prefix)

\* Faulty variant of PrefixLengthOf: the "+= 1" of line 168 left out.
PrefixLengthNoIncrement(path) == BootPathScan(path, 0, 0).TxtFilePathPrefixLength

\* TxtFilePathPrefixLength after "TxtFilePathPrefixLength += 1"
PrefixLengthOf(path) == BootPathScan(path, 0, 0).TxtFilePathPrefixLength + 1

\* TxtFilePathSize = TxtFilePathPrefixSize + sizeof(TxtFileName), in bytes
TxtFilePathSize(prefixLength) == prefixLength * CHAR16Size + SizeofTxtFileName

\* CopyMem(&dst[at], src, n units): dst afterwards.  Units that fall outside
\* dst are not part of the result.
CopyMem(dst, at, src, n) ==
  [k \in 1..Len(dst) |-> IF k - 1 >= at /\ k - 1 < at + n THEN src[k - at] ELSE dst[k]]

\* The units of a string buffer up to its first terminator.
RECURSIVE StrOf(_)
StrOf(buf) ==
  IF buf = <<>> \/ Head(buf) = NUL THEN <<>> ELSE <<Head(buf)>> \o StrOf(Tail(buf))

\* UINT8 compare(firstitem, seconditem, comparelength): 1 if the first
\* comparelength bytes agree, 0 at the first byte that differs.
RECURSIVE compareFrom(_, _, _, _)
compareFrom(one, two, comparelength, i) ==
  IF i >= comparelength THEN 1
  ELSE IF one[i + 1] # two[i + 1] THEN 0
  ELSE compareFrom(one, two, comparelength, i + 1)

\* Faulty variant of compare: the loop stops one byte short.
compareOneShort(firstitem, seconditem, comparelength) ==
  compareFrom(firstitem, seconditem, comparelength - 1, 0)

compare(firstitem, seconditem, comparelength) ==
  compareFrom(firstitem, seconditem, comparelength, 0)

\* The byte offsets of firstitem that compare reads.
RECURSIVE compareReadsFrom(_, _, _, _)
compareReadsFrom(one, two, comparelength, i) ==
  IF i >= comparelength THEN {}
  ELSE IF one[i + 1] # two[i + 1] THEN {i}
  ELSE {i} \cup compareReadsFrom(one, two, comparelength, i + 1)

compareReads(firstitem, seconditem, comparelength) ==
  compareReadsFrom(firstitem, seconditem, comparelength, 0)

\* KernelcmdArray[i] as a CHAR16 (little-endian); a unit that is not wholly
\* inside the bytes read from the file is recorded as a read all the same.
UnitAt(arr, i) ==
  IF CHAR16Size * i + 2 <= Len(arr)
  THEN arr[CHAR16Size * i + 1] + 256 * arr[CHAR16Size * i + 2]
  ELSE NUL

UnitBytes(i) == {CHAR16Size * i, CHAR16Size * i + 1}

\* (FileInfo->FileSize) >> 1
UnitCount(fileSize) == fileSize \div 2

\* Faulty variant of FirstLineScan: "\r" handled like "\n", the unit after it
\* not skipped.
RECURSIVE FirstLineScanCRAlone(_, _, _, _)
FirstLineScanCRAlone(arr, n, i, KernelPathSize) ==
  IF i >= n
  THEN [FirstLineLength |-> 0, KernelPathSize |-> KernelPathSize, examined |-> {}]
  ELSE IF UnitAt(arr, i) = LF \/ UnitAt(arr, i) = CR
  THEN [FirstLineLength |-> i + 1, KernelPathSize |-> KernelPathSize, examined |-> {i}]
  ELSE LET rest == FirstLineScanCRAlone(arr, n, i + 1,
                     IF UnitAt(arr, i) # SPACE THEN KernelPathSize + 1 ELSE KernelPathSize)
       IN  [rest EXCEPT !.examined = @ \cup {i}]

\* for(UINT64 i = 1; i < (FileSize >> 1); i++) of lines 328-349.
\* examined: the unit indices whose value the loop read.
RECURSIVE FirstLineScan(_, _, _, _)
FirstLineScan(arr, n, i, KernelPathSize) ==
  IF i >= n
  THEN [FirstLineLength |-> 0, KernelPathSize |-> KernelPathSize, examined |-> {}]
  ELSE IF UnitAt(arr, i) = LF
  THEN [FirstLineLength |-> i + 1, KernelPathSize |-> KernelPathSize, examined |-> {i}]
  ELSE IF UnitAt(arr, i) = CR
  THEN [FirstLineLength |-> i + 1 + 1, KernelPathSize |-> KernelPathSize, examined |-> {i}]
  ELSE LET rest == FirstLineScan(arr, n, i + 1,
                     IF UnitAt(arr, i) # SPACE THEN KernelPathSize + 1 ELSE KernelPathSize)
       IN  [rest EXCEPT !.examined = @ \cup {i}]

\* Faulty variant of CmdlineScan: a line break is skipped, the scan not ended.
RECURSIVE CmdlineScanNoBreak(_, _, _, _)
CmdlineScanNoBreak(arr, n, j, size) ==
  IF j >= n THEN [CmdlineSize |-> size, examined |-> {}]
  ELSE LET rest == CmdlineScanNoBreak(arr, n, j + 1,
                     IF UnitAt(arr, j) = LF \/ UnitAt(arr, j) = CR THEN size ELSE size + 1)
       IN  [rest EXCEPT !.examined = @ \cup {j}]

\* for(UINT64 j = FirstLineLength; j < (FileSize >> 1); j++) of lines 361-369.
RECURSIVE CmdlineScan(_, _, _, _)
CmdlineScan(arr, n, j, size) ==
  IF j >= n THEN [CmdlineSize |-> size, examined |-> {}]
  ELSE IF UnitAt(arr, j) = LF \/ UnitAt(arr, j) = CR
  THEN [CmdlineSize |-> size, examined |-> {j}]
  ELSE LET rest == CmdlineScan(arr, n, j + 1, size + 1)
       IN  [rest EXCEPT !.examined = @ \cup {j}]

\* buf[index] = value on an allocation of Len(buf) units: a store outside the
\* allocation does not change the buffer's own units.
Store(buf, index, value) ==
  IF index + 1 \in 1..Len(buf) THEN [buf EXCEPT ![index + 1] = value] ELSE buf

\* for(UINT64 i = 1; i < FirstLineLength; i++) of lines 396-407:
\* KernelPath[i-1] = KernelcmdArray[i] for every unit that is not a space.
RECURSIVE KernelPathCopy(_, _, _, _)
KernelPathCopy(arr, fll, i, st) ==
  IF i >= fll THEN st
  ELSE IF UnitAt(arr, i) = LF \/ UnitAt(arr, i) = CR
  THEN [st EXCEPT !.examined = @ \cup {i}]
  ELSE IF UnitAt(arr, i) # SPACE
  THEN KernelPathCopy(arr, fll, i + 1,
         [buf |-> Store(st.buf, i - 1, UnitAt(arr, i)),
          writes |-> st.writes \cup {i - 1},
          examined |-> st.examined \cup {i}])
  ELSE KernelPathCopy(arr, fll, i + 1, [st EXCEPT !.examined = @ \cup {i}])

\* for(UINT64 j = FirstLineLength; j < (FileSize >> 1); j++) of lines 411-419:
\* Cmdline[j-FirstLineLength] = KernelcmdArray[j].
RECURSIVE CmdlineCopy(_, _, _, _, _)
CmdlineCopy(arr, n, fll, j, st) ==
  IF j >= n THEN st
  ELSE IF UnitAt(arr, j) = LF \/ UnitAt(arr, j) = CR
  THEN [st EXCEPT !.examined = @ \cup {j}]
  ELSE CmdlineCopy(arr, n, fll, j + 1,
         [buf |-> Store(st.buf, j - fll, UnitAt(arr, j)),
          writes |-> st.writes \cup {j - fll},
          examined |-> st.examined \cup {j}])

\* A fresh allocation of n units: every cell holds whatever the pool held.
Uninitialized(n) == {[k \in 1..n |-> g] : g \in GarbageUnits}


\* ------------------------------------------------------------ state machine

InitWith(paths) ==
  /\ pc = "OpenLoadedImage"
  /\ Status = "EFI_SUCCESS"
  /\ retLine = 0
  /\ BootFilePath \in paths
  /\ TxtFilePathPrefixLength = 0
  /\ TxtFilePath = <<>>
  /\ txtWritten = {}
  /\ pool = [b \in Buffers |-> "none"]
  /\ poolType = [b \in Buffers |-> "none"]
  /\ FileSize = 0
  /\ KernelcmdArray = <<>>
  /\ arrayAlloc = 0
  /\ bufReads = {}
  /\ FirstLineLength = 0
  /\ KernelPathLen = 0
  /\ CmdlineLen = 0
  /\ CmdlineSize = 0
  /\ KernelPath = <<>>
  /\ kpWrites = {}
  /\ Cmdline = <<>>
  /\ clWrites = {}
  /\ FullDevicePath = <<>>
  /\ LoadOptions = "NULL"
  /\ LoadOptionsSize = 0
  /\ LoadedKernelImageHandle = "unset"
  /\ events = <<>>

Init == InitWith(MainBootPaths)

\* A firmware call checked with "if(EFI_ERROR(Status)) { ...; return Status; }":
\* it answers st; on an error efi_main returns at line, else goes on at next.
Checked(st, line, next) ==
  /\ Status' = st
  /\ IF EFI_ERROR(st)
     THEN pc' = "returned" /\ retLine' = line
     ELSE pc' = next /\ retLine' = retLine

\* AllocatePool(type, ...) of buffer b answered st.
Allocated(b, type, st) ==
  IF EFI_ERROR(st)
  THEN UNCHANGED poolVars
  ELSE /\ pool' = [pool EXCEPT ![b] = "allocated"]
       /\ poolType' = [poolType EXCEPT ![b] = type]

\* BS->FreePool(b) answered st.
Freed(b, st) ==
  /\ pool' = IF EFI_ERROR(st) THEN pool ELSE [pool EXCEPT ![b] = "freed"]
  /\ UNCHANGED poolType

\* lines 116-122: OpenProtocol(ImageHandle, &LoadedImageProtocol, ...)
OpenLoadedImage ==
  /\ pc = "OpenLoadedImage"
  /\ \E st \in {"EFI_SUCCESS", "EFI_UNSUPPORTED"} :
       Checked(st, 121, "OpenFileSystem")
  /\ events' = Append(events, "OpenProtocol")
  /\ UNCHANGED <<BootFilePath, locVars, poolVars, fileVars, parseVars, stringVars,
                 imageVars>>

\* lines 128-134: OpenProtocol(LoadedImage->DeviceHandle, &FileSystemProtocol, ...)
OpenFileSystem ==
  /\ pc = "OpenFileSystem"
  /\ \E st \in {"EFI_SUCCESS", "EFI_UNSUPPORTED"} :
       Checked(st, 133, "OpenVolume")
  /\ events' = Append(events, "OpenProtocol")
  /\ UNCHANGED <<BootFilePath, locVars, poolVars, fileVars, parseVars, stringVars,
                 imageVars>>

\* lines 139-145: FileSystem->OpenVolume
OpenVolume ==
  /\ pc = "OpenVolume"
  /\ \E st \in {"EFI_SUCCESS", "EFI_DEVICE_ERROR"} :
       Checked(st, 144, "AllocTxtFilePath")
  /\ events' = Append(events, "OpenVolume")
  /\ UNCHANGED <<BootFilePath, locVars, poolVars, fileVars, parseVars, stringVars,
                 imageVars>>

\* lines 150-188: the scan of BootFilePath and AllocatePool of TxtFilePath
AllocTxtFilePath ==
  /\ pc = "AllocTxtFilePath"
  /\ TxtFilePathPrefixLength' = PrefixLengthOf(BootFilePath)
  /\ \E st \in {"EFI_SUCCESS", "EFI_OUT_OF_RESOURCES"} :
       /\ Checked(st, 187, "BuildTxtFilePath")
       /\ Allocated("TxtFilePath", "EfiBootServicesData", st)
       /\ IF EFI_ERROR(st)
          THEN TxtFilePath' = TxtFilePath
          ELSE TxtFilePath' \in
                 Uninitialized(TxtFilePathSize(PrefixLengthOf(BootFilePath)) \div CHAR16Size)
  /\ events' = Append(events, "AllocatePool:TxtFilePath")
  /\ UNCHANGED <<BootFilePath, txtWritten, fileVars, parseVars, stringVars, imageVars>>

\* lines 193-194: the two CopyMem calls that fill TxtFilePath
BuildTxtFilePath ==
  /\ pc = "BuildTxtFilePath"
  /\ TxtFilePath' = CopyMem(CopyMem(TxtFilePath, 0, BootFilePath, TxtFilePathPrefixLength),
                            TxtFilePathPrefixLength, TxtFileName, Len(TxtFileName))
  /\ txtWritten' = (0..(TxtFilePathPrefixLength - 1))
                     \cup (TxtFilePathPrefixLength..(TxtFilePathPrefixLength + Len(TxtFileName) - 1))
  /\ pc' = "OpenKernelcmd"
  /\ UNCHANGED <<Status, retLine, BootFilePath, TxtFilePathPrefixLength, poolVars, fileVars,
                 parseVars, stringVars, imageVars, events>>

\* Faulty variant of OpenKernelcmd: the status of Open is not checked.
OpenKernelcmdUnchecked ==
  /\ pc = "OpenKernelcmd"
  /\ \E st \in {"EFI_SUCCESS", "EFI_NOT_FOUND"} : Status' = st
  /\ pc' = "AllocFileInfo"
  /\ events' = Append(events, "Open")
  /\ UNCHANGED <<retLine, BootFilePath, locVars, poolVars, fileVars, parseVars, stringVars,
                 imageVars>>

\* lines 206-211: CurrentDriveRoot->Open(..., TxtFilePath, EFI_FILE_MODE_READ, ...)
OpenKernelcmd ==
  /\ pc = "OpenKernelcmd"
  /\ \E st \in {"EFI_SUCCESS", "EFI_NOT_FOUND"} :
       Checked(st, 210, "AllocFileInfo")
  /\ events' = Append(events, "Open")
  /\ UNCHANGED <<BootFilePath, locVars, poolVars, fileVars, parseVars, stringVars,
                 imageVars>>

\* lines 218-236: GetInfo for the metadata size (its status is overwritten),
\* then AllocatePool of FileInfo
AllocFileInfo ==
  /\ pc = "AllocFileInfo"
  /\ \E st \in {"EFI_SUCCESS", "EFI_OUT_OF_RESOURCES"} :
       /\ Checked(st, 235, "GetInfo")
       /\ Allocated("FileInfo", "EfiBootServicesData", st)
  /\ events' = events \o <<"GetInfo", "AllocatePool:FileInfo">>
  /\ UNCHANGED <<BootFilePath, locVars, fileVars, parseVars, stringVars, imageVars>>

\* lines 239-245: GetInfo fills FileInfo; size is the file's FileSize
GetInfo ==
  /\ pc = "GetInfo"
  /\ \E st \in {"EFI_SUCCESS", "EFI_DEVICE_ERROR"} :
       /\ Checked(st, 244, "AllocKernelcmdArray")
       /\ IF EFI_ERROR(st)
          THEN FileSize' = FileSize
          ELSE FileSize' \in 0..MaxFileBytes
  /\ events' = Append(events, "GetInfo")
  /\ UNCHANGED <<BootFilePath, locVars, poolVars, KernelcmdArray, arrayAlloc, bufReads,
                 parseVars, stringVars, imageVars>>

\* lines 272-280: AllocatePool(EfiBootServicesData, FileInfo->FileSize, &KernelcmdArray)
AllocKernelcmdArray ==
  /\ pc = "AllocKernelcmdArray"
  /\ \E st \in {"EFI_SUCCESS", "EFI_OUT_OF_RESOURCES"} :
       /\ Checked(st, 279, "ReadFile")
       /\ Allocated("KernelcmdArray", "EfiBootServicesData", st)
       /\ arrayAlloc' = IF EFI_ERROR(st) THEN arrayAlloc ELSE FileSize
  /\ events' = Append(events, "AllocatePool:KernelcmdArray")
  /\ UNCHANGED <<BootFilePath, locVars, FileSize, KernelcmdArray, bufReads, parseVars,
                 stringVars, imageVars>>

\* lines 283-289: Read(KernelcmdFile, &FileInfo->FileSize, KernelcmdArray).  Read
\* stores the number of bytes it delivered in FileInfo->FileSize; it delivers
\* at most the number asked for.
ReadFile ==
  /\ pc = "ReadFile"
  /\ \E st \in {"EFI_SUCCESS", "EFI_DEVICE_ERROR"} :
       /\ Checked(st, 288, "BOMCheck")
       /\ IF EFI_ERROR(st)
          THEN UNCHANGED <<KernelcmdArray, FileSize>>
          ELSE \E content \in Files :
                 /\ Len(content) <= FileSize
                 /\ KernelcmdArray' = content
                 /\ FileSize' = Len(content)
  /\ events' = Append(events, "Read")
  /\ UNCHANGED <<BootFilePath, locVars, poolVars, arrayAlloc, bufReads, parseVars,
                 stringVars, imageVars>>


\* The first two bytes at KernelcmdArray as compare sees them: bytes the Read
\* did not deliver hold whatever the pool held.
MarkerBytes(g) ==
  [k \in 1..BOMCompareLength |-> IF k <= FileSize THEN KernelcmdArray[k] ELSE g[k]]

\* lines 295-319: the UTF-16 format check; "return Status" at line 318 returns
\* the Status the Read left.
BOMCheck ==
  /\ pc = "BOMCheck"
  /\ \E g \in [1..BOMCompareLength -> GarbageBytes] :
       LET mem == MarkerBytes(g)
           le == BytesOf(<<UTF16_BOM_LE>>)
           be == BytesOf(<<UTF16_BOM_BE>>)
       IN  IF compare(mem, le, BOMCompareLength) # 0
           THEN /\ pc' = "MeasureLines"
                /\ retLine' = retLine
                /\ bufReads' = bufReads \cup compareReads(mem, le, BOMCompareLength)
                /\ events' = events
           ELSE /\ pc' = "returned"
                /\ retLine' = 318
                /\ bufReads' = bufReads \cup compareReads(mem, le, BOMCompareLength)
                                        \cup compareReads(mem, be, BOMCompareLength)
                /\ events' = Append(events,
                                    IF compare(mem, be, BOMCompareLength) # 0
                                    THEN "Diag:WrongEndianness" ELSE "Diag:NoBOM")
  /\ UNCHANGED <<Status, BootFilePath, locVars, poolVars, FileSize, KernelcmdArray,
                 arrayAlloc, parseVars, stringVars, imageVars>>

\* The byte offsets of a set of unit indices.
BytesOfUnits(S) == UNION {UnitBytes(i) : i \in S}

\* KernelPathSize = (KernelPathSize + 1) << 1, in bytes
KernelPathSizeOf(len) == (len + 1) * 2

\* Faulty variant of CmdlineSizeOf: the terminator not counted.
CmdlineSizeNoTerminator(len) == len * 2

\* CmdlineSize = (CmdlineSize + 1) << 1, in bytes
CmdlineSizeOf(len) == (len + 1) * 2

\* lines 325-372: the two measuring loops
MeasureLines ==
  /\ pc = "MeasureLines"
  /\ LET n == UnitCount(FileSize)
         first == FirstLineScan(KernelcmdArray, n, 1, 0)
         cmd == CmdlineScan(KernelcmdArray, n, first.FirstLineLength, 0)
     IN  /\ FirstLineLength' = first.FirstLineLength
         /\ KernelPathLen' = first.KernelPathSize
         /\ CmdlineLen' = cmd.CmdlineSize
         /\ CmdlineSize' = CmdlineSizeOf(cmd.CmdlineSize)
         /\ bufReads' = bufReads \cup BytesOfUnits(first.examined \cup cmd.examined)
  /\ pc' = "AllocKernelPath"
  /\ UNCHANGED <<Status, retLine, BootFilePath, locVars, poolVars, FileSize, KernelcmdArray,
                 arrayAlloc, stringVars, imageVars, events>>

\* lines 378-385: AllocatePool(EfiBootServicesData, KernelPathSize, &KernelPath)
AllocKernelPath ==
  /\ pc = "AllocKernelPath"
  /\ \E st \in {"EFI_SUCCESS", "EFI_OUT_OF_RESOURCES"} :
       /\ Checked(st, 384, "AllocCmdline")
       /\ Allocated("KernelPath", "EfiBootServicesData", st)
       /\ IF EFI_ERROR(st)
          THEN KernelPath' = KernelPath
          ELSE KernelPath' \in Uninitialized(KernelPathSizeOf(KernelPathLen) \div CHAR16Size)
  /\ events' = Append(events, "AllocatePool:KernelPath")
  /\ UNCHANGED <<BootFilePath, locVars, fileVars, parseVars, kpWrites, Cmdline, clWrites,
                 imageVars>>

\* lines 387-394: AllocatePool(EfiLoaderData, CmdlineSize, &Cmdline)
AllocCmdline ==
  /\ pc = "AllocCmdline"
  /\ \E st \in {"EFI_SUCCESS", "EFI_OUT_OF_RESOURCES"} :
       /\ Checked(st, 393, "CopyLines")
       /\ Allocated("Cmdline", "EfiLoaderData", st)
       /\ IF EFI_ERROR(st)
          THEN Cmdline' = Cmdline
          ELSE Cmdline' \in Uninitialized(CmdlineSize \div CHAR16Size)
  /\ events' = Append(events, "AllocatePool:Cmdline")
  /\ UNCHANGED <<BootFilePath, locVars, fileVars, parseVars, KernelPath, kpWrites, clWrites,
                 imageVars>>

\* lines 396-420: the two copying loops and the two terminators
CopyLines ==
  /\ pc = "CopyLines"
  /\ LET n == UnitCount(FileSize)
         kp == KernelPathCopy(KernelcmdArray, FirstLineLength, 1,
                              [buf |-> KernelPath, writes |-> {}, examined |-> {}])
         cl == CmdlineCopy(KernelcmdArray, n, FirstLineLength, FirstLineLength,
                           [buf |-> Cmdline, writes |-> {}, examined |-> {}])
     IN  /\ KernelPath' = Store(kp.buf, KernelPathLen, NUL)
         /\ kpWrites' = kp.writes \cup {KernelPathLen}
         /\ Cmdline' = Store(cl.buf, CmdlineLen, NUL)
         /\ clWrites' = cl.writes \cup {CmdlineLen}
         /\ bufReads' = bufReads \cup BytesOfUnits(kp.examined \cup cl.examined)
  /\ pc' = "FileDevicePath"
  /\ UNCHANGED <<Status, retLine, BootFilePath, locVars, poolVars, FileSize, KernelcmdArray,
                 arrayAlloc, parseVars, imageVars, events>>

\* lines 428-431: FullDevicePath = FileDevicePath(LoadedImage->DeviceHandle, KernelPath).
\* The library allocates the descriptor, or answers NULL; the answer is not checked.
BuildDevicePath ==
  /\ pc = "FileDevicePath"
  /\ \/ /\ pool' = [pool EXCEPT !["FullDevicePath"] = "allocated"]
        /\ poolType' = [poolType EXCEPT !["FullDevicePath"] = "PoolAllocationType"]
        /\ FullDevicePath' = StrOf(KernelPath)
     \/ /\ UNCHANGED poolVars
        /\ FullDevicePath' = <<>>
  /\ pc' = "FreeTxtFilePath"
  /\ events' = Append(events, "FileDevicePath")
  /\ UNCHANGED <<Status, retLine, BootFilePath, locVars, fileVars, parseVars, stringVars,
                 LoadOptions, LoadOptionsSize, LoadedKernelImageHandle>>

\* BS->FreePool(b) checked at its call site.
FreeStep(b, line, next) ==
  /\ \E st \in {"EFI_SUCCESS", "EFI_INVALID_PARAMETER"} :
       /\ Checked(st, line, next)
       /\ Freed(b, st)
  /\ events' = Append(events, "FreePool:" \o b)
  /\ UNCHANGED <<BootFilePath, locVars, fileVars, parseVars, stringVars, imageVars>>

\* lines 433-440
FreeTxtFilePath == pc = "FreeTxtFilePath" /\ FreeStep("TxtFilePath", 439, "FreeKernelPath")

\* Faulty variant of FreeKernelPath: TxtFilePath is released a second time.
FreeTxtFilePathAgain ==
  pc = "FreeKernelPath" /\ FreeStep("TxtFilePath", 447, "FreeKernelcmdArray")

\* lines 442-448
FreeKernelPath == pc = "FreeKernelPath" /\ FreeStep("KernelPath", 447, "FreeKernelcmdArray")

\* lines 450-456
FreeKernelcmdArray ==
  pc = "FreeKernelcmdArray" /\ FreeStep("KernelcmdArray", 455, "FreeFileInfo")

\* Faulty variant of FreeFileInfo: Cmdline released with the other buffers.
FreeFileInfoAndCmdline ==
  /\ pc = "FreeFileInfo"
  /\ \E st \in {"EFI_SUCCESS", "EFI_INVALID_PARAMETER"} :
       /\ Checked(st, 463, "LoadImage")
       /\ pool' = IF EFI_ERROR(st) THEN pool
                  ELSE [pool EXCEPT !["FileInfo"] = "freed", !["Cmdline"] = "freed"]
       /\ UNCHANGED poolType
  /\ events' = Append(events, "FreePool:FileInfo")
  /\ UNCHANGED <<BootFilePath, locVars, fileVars, parseVars, stringVars, imageVars>>

\* lines 458-464
FreeFileInfo == pc = "FreeFileInfo" /\ FreeStep("FileInfo", 463, "LoadImage")

\* Faulty variant of LoadImage: the descriptor is not released afterwards.
LoadImageKeepsDescriptor ==
  /\ pc = "LoadImage"
  /\ \E st \in (IF pool["FullDevicePath"] = "allocated"
               THEN {"EFI_SUCCESS", "EFI_NOT_FOUND", "EFI_LOAD_ERROR"}
               ELSE {"EFI_NOT_FOUND"}) :
       /\ Checked(st, 474, "OpenLoadedKernelImage")
       /\ LoadedKernelImageHandle' =
            IF EFI_ERROR(st) THEN LoadedKernelImageHandle ELSE "KernelImage"
  /\ events' = Append(events, "LoadImage")
  /\ UNCHANGED <<BootFilePath, locVars, poolVars, fileVars, parseVars, stringVars,
                 FullDevicePath, LoadOptions, LoadOptionsSize>>

\* lines 466-475: LoadImage(FALSE, ImageHandle, FullDevicePath, NULL, 0, ...).
\* With no descriptor and no source buffer the firmware answers EFI_NOT_FOUND.
LoadImage ==
  /\ pc = "LoadImage"
  /\ \E st \in (IF pool["FullDevicePath"] = "allocated"
               THEN {"EFI_SUCCESS", "EFI_NOT_FOUND", "EFI_LOAD_ERROR"}
               ELSE {"EFI_NOT_FOUND"}) :
       /\ Checked(st, 474, "FreeFullDevicePath")
       /\ LoadedKernelImageHandle' =
            IF EFI_ERROR(st) THEN LoadedKernelImageHandle ELSE "KernelImage"
  /\ events' = Append(events, "LoadImage")
  /\ UNCHANGED <<BootFilePath, locVars, poolVars, fileVars, parseVars, stringVars,
                 FullDevicePath, LoadOptions, LoadOptionsSize>>

\* lines 477-483
FreeFullDevicePath ==
  pc = "FreeFullDevicePath" /\ FreeStep("FullDevicePath", 482, "OpenLoadedKernelImage")

\* lines 485-494: OpenProtocol(LoadedKernelImageHandle, &LoadedImageProtocol, ...)
OpenLoadedKernelImage ==
  /\ pc = "OpenLoadedKernelImage"
  /\ \E st \in {"EFI_SUCCESS", "EFI_UNSUPPORTED"} :
       Checked(st, 493, "StartImage")
  /\ events' = Append(events, "OpenProtocol")
  /\ UNCHANGED <<BootFilePath, locVars, poolVars, fileVars, parseVars, stringVars,
                 imageVars>>

\* lines 496-506: the load options are set and StartImage is called
StartImage ==
  /\ pc = "StartImage"
  /\ LoadOptions' = "Cmdline"
  /\ LoadOptionsSize' = CmdlineSize
  /\ pc' = "InImage"
  /\ events' = Append(events, "StartImage")
  /\ UNCHANGED <<Status, retLine, BootFilePath, locVars, poolVars, fileVars, parseVars,
                 stringVars, FullDevicePath, LoadedKernelImageHandle>>

\* What StartImage may answer if the image returns: success, a warning, an error.
StartImageStatuses == {"EFI_SUCCESS", "EFI_WARN_UNKNOWN_GLYPH", "EFI_LOAD_ERROR",
                       "EFI_ABORTED"}

\* line 506: StartImage returned; its answer is assigned to Status
ImageReturned ==
  /\ pc = "InImage"
  /\ \E st \in StartImageStatuses :
       /\ Status' = st
       /\ events' = Append(events, "StartImage=" \o st)
  /\ pc' = "ReturnStatus"
  /\ UNCHANGED <<retLine, BootFilePath, locVars, poolVars, fileVars, parseVars, stringVars,
                 imageVars>>

\* Faulty variant of ReturnStatus: a returning image reported as success.
ReturnSuccess ==
  /\ pc = "ReturnStatus"
  /\ pc' = "returned"
  /\ retLine' = 511
  /\ Status' = "EFI_SUCCESS"
  /\ UNCHANGED <<BootFilePath, locVars, poolVars, fileVars, parseVars, stringVars,
                 imageVars, events>>

\* lines 508-511: the status is shown and "return Status"
ReturnStatus ==
  /\ pc = "ReturnStatus"
  /\ pc' = "returned"
  /\ retLine' = 511
  /\ UNCHANGED <<Status, BootFilePath, locVars, poolVars, fileVars, parseVars, stringVars,
                 imageVars, events>>

LocateNext ==
  \/ OpenLoadedImage
  \/ OpenFileSystem
  \/ OpenVolume
  \/ AllocTxtFilePath
  \/ BuildTxtFilePath
  \/ OpenKernelcmd

Next ==
  \/ LocateNext
  \/ AllocFileInfo
  \/ GetInfo
  \/ AllocKernelcmdArray
  \/ ReadFile
  \/ BOMCheck
  \/ MeasureLines
  \/ AllocKernelPath
  \/ AllocCmdline
  \/ CopyLines
  \/ BuildDevicePath
  \/ FreeTxtFilePath
  \/ FreeKernelPath
  \/ FreeKernelcmdArray
  \/ FreeFileInfo
  \/ LoadImage
  \/ FreeFullDevicePath
  \/ OpenLoadedKernelImage
  \/ StartImage
  \/ ImageReturned
  \/ ReturnStatus

Spec == Init /\ [][Next]_vars

\* The locating stage alone (lines 116-211), over every bounded BootFilePath.
InitLocate == InitWith(BootPaths)
SpecLocate == InitLocate /\ [][LocateNext]_vars

\* ------------------------------------------------------------------ claims
\* Reference notions the claims are stated with; none of them is used by the
\* state machine above.

Called(e) == \E k \in 1..Len(events) : events[k] = e

\* The whole 16-bit units of the configuration buffer, marker first.
ConfigUnits == [k \in 1..(Len(KernelcmdArray) \div 2) |->
                  KernelcmdArray[2 * k - 1] + 256 * KernelcmdArray[2 * k]]

HasNativeMarker == Len(ConfigUnits) >= 1 /\ ConfigUnits[1] = UTF16_BOM_LE

IsBreak(u) == u = LF \/ u = CR

\* Position in units of the first line-break unit at or after from, 0 if none.
FirstBreak(units, from) ==
  IF \E k \in from..Len(units) : IsBreak(units[k])
  THEN CHOOSE k \in from..Len(units) :
         IsBreak(units[k]) /\ \A m \in from..(k - 1) : ~IsBreak(units[m])
  ELSE 0

\* The break at position t is a terminator "\n" or "\r\n".
IsTerminator(units, t) ==
  \/ units[t] = LF
  \/ units[t] = CR /\ t + 1 <= Len(units) /\ units[t + 1] = LF

AfterTerminator(units, t) == IF units[t] = LF THEN t + 1 ELSE t + 2

Line1End == FirstBreak(ConfigUnits, 2)
Line2Start == AfterTerminator(ConfigUnits, Line1End)
Line2End == FirstBreak(ConfigUnits, Line2Start)

\* A marked buffer whose first and second lines are both terminated.
ValidTwoLines ==
  /\ HasNativeMarker
  /\ Line1End # 0
  /\ IsTerminator(ConfigUnits, Line1End)
  /\ Line2End # 0
  /\ IsTerminator(ConfigUnits, Line2End)

Line1 == SubSeq(ConfigUnits, 2, Line1End - 1)
Line2 == SubSeq(ConfigUnits, Line2Start, Line2End - 1)

HasSpace(line) == \E k \in 1..Len(line) : line[k] = SPACE

RECURSIVE WithoutSpaces(_)
WithoutSpaces(line) ==
  IF line = <<>> THEN <<>>
  ELSE IF Head(line) = SPACE THEN WithoutSpaces(Tail(line))
  ELSE <<Head(line)>> \o WithoutSpaces(Tail(line))

\* efi_main has just finished parsing (both strings written).
ParsedNow == pc = "FileDevicePath"

\* C1: for a marked buffer whose first line has no space and whose two lines
\* are terminated by "\n" or "\r\n", parsing yields KernelPath = line 1 and
\* CommandLine = line 2 (spaces included), each followed by its terminator.
C1_ParseExact ==
  (ParsedNow /\ ValidTwoLines /\ ~HasSpace(Line1)) =>
     /\ KernelPath = Line1 \o <<NUL>>
     /\ Cmdline = Line2 \o <<NUL>>

C1_Witness ==
  /\ ParsedNow
  /\ ConfigUnits = <<UTF16_BOM_LE, LetterA, CR, LF, SPACE, LF>>
  /\ KernelPath = <<LetterA, NUL>>
  /\ Cmdline = <<SPACE, NUL>>

\* C2: for a valid two-line buffer, KernelPath is line 1 with every space
\* removed, the other units contiguous and in order, terminated at index =
\* number of non-space units; CommandLine is line 2 verbatim.
C2_SpacesStripped ==
  (ParsedNow /\ ValidTwoLines) =>
     /\ KernelPath = WithoutSpaces(Line1) \o <<NUL>>
     /\ Cmdline = Line2 \o <<NUL>>

\* C3: a buffer whose first two bytes are not the native marker ends the
\* invocation at the format check: the diagnosis names the marker found, no
\* line is scanned, KernelPath and CommandLine are never allocated, and
\* neither LoadImage nor StartImage is called.
C3_NoParseWithoutMarker ==
  (Len(KernelcmdArray) >= 2 /\ ~HasNativeMarker) =>
     /\ pc \in {"BOMCheck", "returned"}
     /\ pc = "returned" =>
          /\ retLine = 318
          /\ events[Len(events)] = IF ConfigUnits[1] = UTF16_BOM_BE
                                   THEN "Diag:WrongEndianness" ELSE "Diag:NoBOM"
     /\ bufReads \subseteq {0, 1}
     /\ pool["KernelPath"] = "none"
     /\ pool["Cmdline"] = "none"
     /\ ~Called("LoadImage")
     /\ ~Called("StartImage")

C3_Witness ==
  /\ pc = "returned"
  /\ retLine = 318
  /\ Len(KernelcmdArray) >= 2
  /\ ConfigUnits[1] = UTF16_BOM_BE
  /\ Called("Diag:WrongEndianness")

\* C4: when efi_main returns without having called StartImage, the status it
\* returns is a failure status.
C4_FatalReturnsFailure ==
  (pc = "returned" /\ ~Called("StartImage")) => EFI_ERROR(Status)

\* C5: a marked buffer with no "\n" or "\r" unit after the marker makes the
\* loader fail: no BootSpec is produced and LoadImage and StartImage are
\* never called.
C5_UnterminatedFirstLineFails ==
  (HasNativeMarker /\ Line1End = 0) =>
     /\ ~ParsedNow
     /\ ~Called("FileDevicePath")
     /\ ~Called("LoadImage")
     /\ ~Called("StartImage")

\* C6: for a buffer of any reported byte length, every byte offset the loader
\* reads from it is below that length (stated for a file read in full, where
\* the reported length is both the metadata size and the size read).
C6_ReadsInsideBuffer ==
  (arrayAlloc = FileSize) => \A r \in bufReads : r < FileSize

HasBackslash == \E k \in 1..Len(BootFilePath) : BootFilePath[k] = BACKSLASH

\* C7: for a BootFilePath with no backslash the prefix length is 0 and
\* ConfigFilePath is exactly "Kernelcmd.txt".
C7_BareNameEmptyPrefix ==
  (pc = "OpenKernelcmd" /\ ~HasBackslash) =>
     /\ TxtFilePathPrefixLength = 0
     /\ TxtFilePath = TxtFileName

\* 0-based index of the last backslash of BootFilePath.
LastBackslash ==
  CHOOSE k \in 0..(Len(BootFilePath) - 1) :
    /\ BootFilePath[k + 1] = BACKSLASH
    /\ \A m \in (k + 1)..(Len(BootFilePath) - 1) : BootFilePath[m + 1] # BACKSLASH

C9_NoLeakOnFatalExit ==
  (pc = "returned" /\ retLine # 511) =>
     \A b \in Buffers \ {"Cmdline"} : pool[b] # "allocated"

\* C10: CommandLine is allocated from the loader-data pool, the other buffers
\* the loader allocates from the boot-services-data pool; the loader never
\* releases CommandLine: once allocated it stays allocated through StartImage
\* and the loader's return.
C10_CmdlineNeverReleased ==
  /\ pool["Cmdline"] # "freed"
  /\ ~Called("FreePool:Cmdline")
  /\ (Called("AllocatePool:Cmdline") /\ retLine # 393) =>
        /\ pool["Cmdline"] = "allocated"
        /\ poolType["Cmdline"] = "EfiLoaderData"
  /\ \A b \in {"TxtFilePath", "FileInfo", "KernelcmdArray", "KernelPath"} :
        pool[b] # "none" => poolType[b] = "EfiBootServicesData"

C10_Witness ==
  /\ pc = "returned"
  /\ retLine = 511
  /\ Called("StartImage")
  /\ pool["Cmdline"] = "allocated"
  /\ LoadOptions = "Cmdline"

\* C11: whenever StartImage is called, the handle is the one a successful
\* LoadImage produced, LoadOptions points to CommandLine and LoadOptionsSize is
\* the string's byte size with its terminator, 2 * (command-line units + 1).
C11_LoadOptionsAtStart ==
  Called("StartImage") =>
     /\ LoadedKernelImageHandle = "KernelImage"
     /\ Called("LoadImage")
     /\ LoadOptions = "Cmdline"
     /\ LoadOptionsSize = 2 * (Len(StrOf(Cmdline)) + 1)
     /\ ValidTwoLines => LoadOptionsSize = 2 * (Len(Line2) + 1)

C11_Witness ==
  /\ pc = "InImage"
  /\ ConfigUnits = <<UTF16_BOM_LE, LetterA, LF, LetterA, SPACE, LF>>
  /\ LoadedKernelImageHandle = "KernelImage"
  /\ LoadOptions = "Cmdline"
  /\ LoadOptionsSize = 6

\* Number of times the firmware call e was made.
CallCount(e) == Cardinality({k \in 1..Len(events) : events[k] = e})

\* C12: if opening ConfigFilePath fails, the loader returns that failure at
\* once: Open was attempted exactly once and no GetInfo, Read, parsing,
\* LoadImage or StartImage follows.
C12_OpenFailureIsTerminal ==
  /\ (events # <<>> /\ events[Len(events)] = "Open" /\ EFI_ERROR(Status)) =>
        /\ pc = "returned"
        /\ retLine = 210
  /\ retLine = 210 =>
        /\ pc = "returned"
        /\ Status = "EFI_NOT_FOUND"
        /\ events[Len(events)] = "Open"
        /\ CallCount("Open") = 1
        /\ ~Called("GetInfo")
        /\ ~Called("Read")
        /\ ~Called("LoadImage")
        /\ ~Called("StartImage")
        /\ bufReads = {}
        /\ kpWrites = {}
        /\ clWrites = {}
  /\ CallCount("Open") <= 1

C12_Witness ==
  /\ pc = "returned"
  /\ retLine = 210
  /\ Status = "EFI_NOT_FOUND"
  /\ CallCount("Open") = 1

\* The Read succeeded and delivered fewer bytes than the metadata reported.
ShortRead == Called("Read") /\ retLine # 288 /\ FileSize < arrayAlloc

\* C13: a Read that succeeds with fewer bytes than the size the file metadata
\* reported is a fatal read error: the loader returns a failure status and
\* does not go on to the marker check, parsing or image load.
C13_ShortReadIsFatal ==
  ShortRead =>
     /\ pc = "returned"
     /\ EFI_ERROR(Status)
     /\ bufReads = {}
     /\ ~Called("LoadImage")

\* FileDevicePath yielded no descriptor.
NoDescriptor == Called("FileDevicePath") /\ pool["FullDevicePath"] = "none"

\* C14: if FileDevicePath yields no descriptor, the loader stops with a
\* path-resolution failure of its own: LoadImage is not called with the failed
\* descriptor and StartImage is not reached.
C14_NoDescriptorNoLoadImage ==
  NoDescriptor =>
     /\ ~Called("LoadImage")
     /\ ~Called("StartImage")
     /\ retLine # 474

\* C15: if StartImage returns, the status efi_main returns is exactly the
\* status StartImage answered, whatever it is, and StartImage is called once.
C15_StartImageStatusReturned ==
  /\ CallCount("StartImage") <= 1
  /\ \A st \in StartImageStatuses :
       Called("StartImage=" \o st) =>
          /\ CallCount("StartImage") = 1
          /\ Status = st
          /\ pc \in {"ReturnStatus", "returned"}
          /\ pc = "returned" => retLine = 511
  /\ retLine = 511 => \E st \in StartImageStatuses : Called("StartImage=" \o st)

C15_Witness ==
  /\ pc = "returned"
  /\ retLine = 511
  /\ Called("StartImage=EFI_ABORTED")
  /\ Status = "EFI_ABORTED"

\* Units of the buffer up to and including the terminator of line 2.
UnitsThroughLine2 ==
  IF ConfigUnits[Line2End] = LF THEN Line2End ELSE Line2End + 1

\* The buffer cut right after the terminator of line 2.
CutAfterLine2 == SubSeq(KernelcmdArray, 1, CHAR16Size * UnitsThroughLine2)

\* What the loops of lines 325-420 compute from a buffer of n whole units,
\* KernelPath starting from the pool contents init.
CutFirst == FirstLineScan(CutAfterLine2, UnitsThroughLine2, 1, 0)
CutCmd == CmdlineScan(CutAfterLine2, UnitsThroughLine2, CutFirst.FirstLineLength, 0)
CutKernelPath(init) ==
  Store(KernelPathCopy(CutAfterLine2, CutFirst.FirstLineLength, 1,
                       [buf |-> init, writes |-> {}, examined |-> {}]).buf,
        CutFirst.KernelPathSize, NUL)
CutCmdline(init) ==
  Store(CmdlineCopy(CutAfterLine2, UnitsThroughLine2, CutFirst.FirstLineLength,
                    CutFirst.FirstLineLength,
                    [buf |-> init, writes |-> {}, examined |-> {}]).buf,
        CutCmd.CmdlineSize, NUL)

\* C16: with line 2 terminated, KernelPath, CommandLine and LoadOptionsSize do
\* not depend on any unit after that terminator: no such unit is read, and the
\* results are those of the same buffer cut right after the terminator.
C16_TrailingContentIgnored ==
  (pc \in {"FileDevicePath", "InImage"} /\ ValidTwoLines) =>
     /\ \A r \in bufReads : r < CHAR16Size * UnitsThroughLine2
     /\ \E init \in Uninitialized(CutFirst.KernelPathSize + 1) :
          KernelPath = CutKernelPath(init)
     /\ \E init \in Uninitialized(CutCmd.CmdlineSize + 1) :
          Cmdline = CutCmdline(init)
     /\ CmdlineSize = CmdlineSizeOf(CutCmd.CmdlineSize)
     /\ Called("StartImage") => LoadOptionsSize = CmdlineSizeOf(CutCmd.CmdlineSize)

C16_Witness ==
  /\ pc = "InImage"
  /\ ConfigUnits = <<UTF16_BOM_LE, LetterA, LF, LetterA, LF, LetterA>>
  /\ Cmdline = <<LetterA, NUL>>
  /\ LoadOptionsSize = 4

\* Position in events of the first call e.
FirstCall(e) == CHOOSE k \in 1..Len(events) :
                  events[k] = e /\ \A m \in 1..(k - 1) : events[m] # e

\* The calls e1, e2 were both made, e1 first.
CalledBefore(e1, e2) == Called(e1) /\ Called(e2) /\ FirstCall(e1) < FirstCall(e2)

\* C17: in an execution that reaches StartImage the descriptor is built from
\* KernelPath, then KernelPath is released, then LoadImage succeeds, then the
\* descriptor is released, then StartImage is called; the descriptor is never
\* released before LoadImage has used it.
C17_BufferEventOrder ==
  /\ Called("StartImage") =>
        /\ CalledBefore("FileDevicePath", "FreePool:KernelPath")
        /\ CalledBefore("FreePool:KernelPath", "LoadImage")
        /\ CalledBefore("LoadImage", "FreePool:FullDevicePath")
        /\ CalledBefore("FreePool:FullDevicePath", "StartImage")
        /\ LoadedKernelImageHandle = "KernelImage"
        /\ pool["KernelPath"] = "freed"
        /\ pool["FullDevicePath"] = "freed"
  /\ Called("LoadImage") => pool["KernelPath"] = "freed"
  /\ Called("FreePool:FullDevicePath") =>
        CalledBefore("LoadImage", "FreePool:FullDevicePath")
  /\ pool["FullDevicePath"] = "freed" => LoadedKernelImageHandle = "KernelImage"

C17_Witness ==
  /\ pc = "InImage"
  /\ Called("StartImage")
  /\ FullDevicePath = <<LetterA>>
  /\ pool["KernelPath"] = "freed"
  /\ pool["FullDevicePath"] = "freed"

\* The buffers the step about to run at position p reads, writes or hands to
\* the firmware (lines 193-206, 239-283, 297-420, 431, 434-477, 469, 496-506).
AccessedAt(p) ==
  CASE p = "BuildTxtFilePath"      -> {"TxtFilePath"}
    [] p = "OpenKernelcmd"         -> {"TxtFilePath"}
    [] p = "GetInfo"               -> {"FileInfo"}
    [] p = "AllocKernelcmdArray"   -> {"FileInfo"}
    [] p = "ReadFile"              -> {"FileInfo", "KernelcmdArray"}
    [] p = "BOMCheck"              -> {"KernelcmdArray"}
    [] p = "MeasureLines"          -> {"FileInfo", "KernelcmdArray"}
    [] p = "CopyLines"             -> {"FileInfo", "KernelcmdArray", "KernelPath", "Cmdline"}
    [] p = "FileDevicePath"        -> {"KernelPath"}
    [] p = "FreeTxtFilePath"       -> {"TxtFilePath"}
    [] p = "FreeKernelPath"        -> {"KernelPath"}
    [] p = "FreeKernelcmdArray"    -> {"KernelcmdArray"}
    [] p = "FreeFileInfo"          -> {"FileInfo"}
    [] p = "LoadImage"             -> IF FullDevicePath = <<>> THEN {} ELSE {"FullDevicePath"}
    [] p = "FreeFullDevicePath"    -> {"FullDevicePath"}
    [] p = "OpenLoadedKernelImage" -> {"Cmdline"}
    [] p = "StartImage"            -> {"Cmdline"}
    [] p = "InImage"               -> {"Cmdline"}
    [] OTHER                       -> {}

\* The step just taken called FreePool on buffer b.
ReleaseCall(b) ==
  /\ Len(events') = Len(events) + 1
  /\ events'[Len(events')] = "FreePool:" \o b

\* C18: on every path of efi_main no buffer is released more than once, none
\* is released before it was allocated, and none is read, written or passed
\* on after it was released.
C18_ReleaseDiscipline ==
  /\ [](\A b \in Buffers : CallCount("FreePool:" \o b) <= 1)
  /\ [][\A b \in Buffers :
          /\ ReleaseCall(b) => pool[b] = "allocated"
          /\ (pc' # pc /\ b \in AccessedAt(pc)) => pool[b] = "allocated"]_vars

C18_Witness ==
  /\ pc = "InImage"
  /\ \A b \in Buffers \ {"Cmdline"} :
        pool[b] = "freed" /\ CallCount("FreePool:" \o b) = 1
  /\ pool["Cmdline"] = "allocated"

\* C19: for every buffer that passes the marker check, every write into
\* KernelPath, the terminator included, is at a unit index no greater than
\* the number of non-space units counted for line 1 (inside the allocation of
\* that many units plus one), and every write into CommandLine is at an index
\* no greater than its counted length.
C19_WritesInsideAllocations ==
  /\ \A w \in kpWrites : 0 <= w /\ w <= KernelPathLen
  /\ \A w \in clWrites : 0 <= w /\ w <= CmdlineLen

=============================================================================
